---- MODULE Spec2Model ----
(***************************************************************************)
(* NER evaluation (TSV): parse_tsv_file, calculate_positives,              *)
(* handle_missing_cases, calculate_metrics (src/evaluation.py) and the     *)
(* command line entry point main (src/main.py).                            *)
(*                                                                         *)
(* A DataFrame is a sequence of rows; a row is a function from column      *)
(* names to cells; every cell read from a file is a string (dtype=str,     *)
(* keep_default_na=False).  A Series is a function from its index labels   *)
(* to its values.  A float is a record [num, den]: a reduced fraction when *)
(* den > 0, NaN when num = den = 0, inf when num = 1 and den = 0.          *)
(***************************************************************************)
EXTENDS Integers, Sequences, FiniteSets, TLC

VARIABLES gold_file, pred_file, entities, gs, pred, positives, metrics,
          reordered, exit, pc

vars == <<gold_file, pred_file, entities, gs, pred, positives, metrics,
          reordered, exit, pc>>

(***************************************************************************)
(* Bounds of the model.                                                    *)
(***************************************************************************)
\* rows of the two input files together, in Spec
MaxRows == 4
\* rows of the input file in SpecParse
MaxRawRows == 3
\* rows of the two input files together, in SpecOrder
MaxOrderRows == 3
\* rows of the two input files together, in SpecMain
MaxMainRows == 2

(***************************************************************************)
(* Column names (src/evaluation.py:11-14) and the input domains.           *)
(***************************************************************************)
START_SPAN_TAG == "start_span"
END_SPAN_TAG == "end_span"
ENTITY_NAME_TAG == "text"
LABEL_TAG == "label"

\* the missing-value marker of a merged frame; no input cell holds it
NaN == "<NaN>"

Docs == {"doc1", "doc2"}
Labels == {"A", "B"}
Spans == {<<"0", "5">>, <<"10", "15">>}
\* start/end pairs of which two concatenate to the same offset "0 1 5"
RawSpans == {<<"0", "5">>, <<"0", "1 5">>, <<"0 1", "5">>}
Texts == {"x"}
\* the texts of SpecParse: rows of one key that differ in a column outside it
RawTexts == {"x", "y"}

\* the columns of an input file, of a parsed frame, and all of them
FileColumns == {"filename", LABEL_TAG, START_SPAN_TAG, END_SPAN_TAG, ENTITY_NAME_TAG}
FrameColumns == FileColumns \cup {"offset"}
AllColumns == FrameColumns

Row(f, l, s, e, t) ==
    [c \in FileColumns |->
        CASE c = "filename" -> f
          [] c = LABEL_TAG -> l
          [] c = START_SPAN_TAG -> s
          [] c = END_SPAN_TAG -> e
          [] OTHER -> t]

RowsOver(spans, texts) ==
    {Row(f, l, sp[1], sp[2], t) : f \in Docs, l \in Labels, sp \in spans, t \in texts}

SeqsUpTo(S, n) == UNION {[1..k -> S] : k \in 0..n}

(***************************************************************************)
(* pandas primitives, as the source uses them.                             *)
(***************************************************************************)
\* the cells of row r in the columns of subset
Key(r, subset) == [c \in subset |-> r[c]]

\* DataFrame.duplicated(subset=subset).any()
duplicated_any(df, subset) ==
    \E i, j \in DOMAIN df : i < j /\ Key(df[i], subset) = Key(df[j], subset)

\* DataFrame.drop_duplicates(subset=subset): keeps the first row of each key
drop_duplicates(df, subset) ==
    LET keep(i) == \A j \in 1..(i - 1) : Key(df[j], subset) # Key(df[i], subset)
        F[i \in 0..Len(df)] ==
            IF i = 0 THEN <<>>
            ELSE IF keep(i) THEN Append(F[i - 1], df[i]) ELSE F[i - 1]
    IN F[Len(df)]

\* whether the cell of row r in column c holds a value; the boolean column
\* is_valid never holds a missing value
notnull(r, c) == c = "is_valid" \/ r[c] # NaN

\* df.groupby("filename")[col].count(): rows per filename with a non-null col
groupby_count(df, col) ==
    [f \in {df[i]["filename"] : i \in DOMAIN df} |->
        Cardinality({i \in DOMAIN df : df[i]["filename"] = f /\ notnull(df[i], col)})]

\* df[mask]: the rows whose mask column is True
select_rows(df, mask) ==
    LET F[i \in 0..Len(df)] ==
            IF i = 0 THEN <<>>
            ELSE IF df[i][mask] THEN Append(F[i - 1], df[i]) ELSE F[i - 1]
    IN F[Len(df)]

Flatten(ss) ==
    LET F[i \in 0..Len(ss)] == IF i = 0 THEN <<>> ELSE F[i - 1] \o ss[i]
    IN F[Len(ss)]

\* the names pd.merge gives the columns the two frames share outside the key
SuffixX == [c \in AllColumns |-> c \o "_x"]
SuffixY == [c \in AllColumns |-> c \o "_y"]
UnsuffixX == [k \in {SuffixX[c] : c \in AllColumns} |-> CHOOSE c \in AllColumns : SuffixX[c] = k]
UnsuffixY == [k \in {SuffixY[c] : c \in AllColumns} |-> CHOOSE c \in AllColumns : SuffixY[c] = k]

\* one row of pd.merge(left, right, on=on): the key columns once, every other
\* column of left suffixed _x and of right suffixed _y; when the right row
\* has no partner (matched is FALSE) the columns of left are missing
merged_row(l, r, matched, on, lcols, rcols, indicator) ==
    LET xcols == {SuffixX[c] : c \in lcols \ on}
        ycols == {SuffixY[c] : c \in rcols \ on}
        cols == on \cup xcols \cup ycols \cup (IF indicator THEN {"_merge"} ELSE {})
    IN [k \in cols |->
           IF k \in on THEN r[k]
           ELSE IF k = "_merge" THEN (IF matched THEN "both" ELSE "right_only")
           ELSE IF k \in xcols THEN (IF matched THEN l[UnsuffixX[k]] ELSE NaN)
           ELSE r[UnsuffixY[k]]]

\* merge_right with the rows paired by position instead of joined by key
merge_right_positional(left, right, on, lcols, rcols, indicator) ==
    [j \in DOMAIN right |->
        IF j \in DOMAIN left /\ Key(left[j], on) = Key(right[j], on)
        THEN merged_row(left[j], right[j], TRUE, on, lcols, rcols, indicator)
        ELSE merged_row(right[j], right[j], FALSE, on, lcols, rcols, indicator)]

\* pd.merge(left, right, how="right", on=on): every right row, in the order
\* of right, once per left row with the same key, or once with the left
\* columns missing
merge_right(left, right, on, lcols, rcols, indicator) ==
    LET partners(j) ==
            LET F[i \in 0..Len(left)] ==
                    IF i = 0 THEN <<>>
                    ELSE IF Key(left[i], on) = Key(right[j], on)
                         THEN Append(F[i - 1],
                                     merged_row(left[i], right[j], TRUE, on, lcols, rcols, indicator))
                         ELSE F[i - 1]
            IN F[Len(left)]
        rows(j) ==
            IF partners(j) = <<>>
            THEN <<merged_row(right[j], right[j], FALSE, on, lcols, rcols, indicator)>>
            ELSE partners(j)
    IN Flatten([j \in DOMAIN right |-> rows(j)])

\* ~df.isnull().any(axis=1), for one row
row_is_valid(r) == \A c \in DOMAIN r : notnull(r, c)

(***************************************************************************)
(* Floats.                                                                 *)
(***************************************************************************)
RECURSIVE GCD(_, _)
GCD(a, b) == IF b = 0 THEN a ELSE GCD(b, a % b)

Rat(n, d) == LET g == GCD(n, d) IN [num |-> n \div g, den |-> d \div g]
FromInt(n) == [num |-> n, den |-> 1]
Zero == FromInt(0)
One == FromInt(1)
FNaN == [num |-> 0, den |-> 0]
FInf == [num |-> 1, den |-> 0]
ZeroDivisionError == [raised |-> "ZeroDivisionError"]

IsNaN(a) == a = FNaN
IsInf(a) == a = FInf
IsError(a) == "raised" \in DOMAIN a

fmul(a, b) ==
    IF IsError(a) THEN a ELSE IF IsError(b) THEN b
    ELSE IF IsNaN(a) \/ IsNaN(b) THEN FNaN
    ELSE IF IsInf(a) \/ IsInf(b)
         THEN (IF a = Zero \/ b = Zero THEN FNaN ELSE FInf)
    ELSE Rat(a.num * b.num, a.den * b.den)

fadd(a, b) ==
    IF IsError(a) THEN a ELSE IF IsError(b) THEN b
    ELSE IF IsNaN(a) \/ IsNaN(b) THEN FNaN
    ELSE IF IsInf(a) \/ IsInf(b) THEN FInf
    ELSE Rat(a.num * b.den + b.num * a.den, a.den * b.den)

\* numpy's elementwise true division: x/0 is inf, 0/0 is NaN
np_truediv(a, b) ==
    IF IsNaN(a) \/ IsNaN(b) THEN FNaN
    ELSE IF IsInf(b) THEN (IF IsInf(a) THEN FNaN ELSE Zero)
    ELSE IF IsInf(a) THEN FInf
    ELSE IF b = Zero THEN (IF a = Zero THEN FNaN ELSE FInf)
    ELSE Rat(a.num * b.den, a.den * b.num)

\* Python's a / b on numbers: raises ZeroDivisionError when b is 0
truediv(a, b) ==
    IF IsError(a) THEN a ELSE IF IsError(b) THEN b
    ELSE IF b = Zero THEN ZeroDivisionError
    ELSE Rat(a.num * b.den, a.den * b.num)

\* Series / Series, Series * Series, Series + Series: aligned on the union
\* of the two indexes, NaN where a label is missing on either side
series_div(a, b) ==
    [d \in (DOMAIN a) \cup (DOMAIN b) |->
        IF d \in DOMAIN a /\ d \in DOMAIN b THEN np_truediv(a[d], b[d]) ELSE FNaN]

series_mul(a, b) ==
    [d \in (DOMAIN a) \cup (DOMAIN b) |->
        IF d \in DOMAIN a /\ d \in DOMAIN b THEN fmul(a[d], b[d]) ELSE FNaN]

series_add(a, b) ==
    [d \in (DOMAIN a) \cup (DOMAIN b) |->
        IF d \in DOMAIN a /\ d \in DOMAIN b THEN fadd(a[d], b[d]) ELSE FNaN]

series_float(a) == [d \in DOMAIN a |-> FromInt(a[d])]
series_scale(k, a) == [d \in DOMAIN a |-> fmul(FromInt(k), a[d])]

(***************************************************************************)
(* src/evaluation.py                                                       *)
(***************************************************************************)
\* df['offset'] = df[START_SPAN_TAG] + ' ' + df[END_SPAN_TAG]
with_offset(r) ==
    [c \in FrameColumns |->
        IF c = "offset" THEN r[START_SPAN_TAG] \o " " \o r[END_SPAN_TAG] ELSE r[c]]

\* parse_tsv_file with the label left out of the duplicate key
parse_tsv_file_span_only(rows) ==
    LET df == [i \in DOMAIN rows |-> with_offset(rows[i])]
    IN IF duplicated_any(df, {"filename", "offset"})
       THEN drop_duplicates(df, {"filename", "offset"})
       ELSE df

\* parse_tsv_file, given the rows pd.read_csv returns for the file
parse_tsv_file(rows) ==
    LET df == [i \in DOMAIN rows |-> with_offset(rows[i])]
    IN IF duplicated_any(df, {"filename", "label", "offset"})
       THEN drop_duplicates(df, {"filename", "label", "offset"})
       ELSE df

\* the documents of right that no row of left names (the right_only rows of
\* the merge on filename), in the order of right
right_only_filenames(left, right) ==
    LET m == merge_right(drop_duplicates(left, {"filename"}),
                         drop_duplicates(right, {"filename"}),
                         {"filename"}, FrameColumns, FrameColumns, TRUE)
        F[i \in 0..Len(m)] ==
            IF i = 0 THEN <<>>
            ELSE IF m[i]["_merge"] = "right_only"
                 THEN Append(F[i - 1], m[i]["filename"]) ELSE F[i - 1]
    IN F[Len(m)]

\* Series.drop(labels)
series_drop(s, labels) ==
    [d \in (DOMAIN s) \ {labels[i] : i \in DOMAIN labels} |-> s[d]]

\* for cc in labels: s[cc] = 0
series_set_zero(s, labels) ==
    LET L == {labels[i] : i \in DOMAIN labels}
    IN [d \in (DOMAIN s) \cup L |-> IF d \in L THEN 0 ELSE s[d]]

\* handle_missing_cases with the zero entries put into a copy of TP_per_cc
handle_missing_cases_rebind(TP_per_cc, Pred_Pos_per_cc, g, p) ==
    [TP_per_cc |-> TP_per_cc,
     Pred_Pos_per_cc |-> Pred_Pos_per_cc,
     local_Pred_Pos_per_cc |-> series_drop(Pred_Pos_per_cc, right_only_filenames(g, p))]

\* handle_missing_cases: the two Series objects of the caller after the
\* call, and the value the local name Pred_Pos_per_cc is rebound to
handle_missing_cases(TP_per_cc, Pred_Pos_per_cc, g, p) ==
    LET cc_not_predicted == right_only_filenames(p, g)
        cc_not_GS == right_only_filenames(g, p)
    IN [TP_per_cc |-> series_set_zero(TP_per_cc, cc_not_predicted),
        Pred_Pos_per_cc |-> Pred_Pos_per_cc,
        local_Pred_Pos_per_cc |-> series_drop(Pred_Pos_per_cc, cc_not_GS)]

\* df_sel with the label left out of the join key
df_sel_on_span(g, p) ==
    LET m == merge_right(p, g, {"filename", "offset"},
                         FrameColumns, FrameColumns, FALSE)
    IN [i \in DOMAIN m |->
           [c \in (DOMAIN m[i]) \cup {"is_valid"} |->
               IF c = "is_valid" THEN row_is_valid(m[i]) ELSE m[i][c]]]

\* pd.merge(pred, gs, how="right", on=["filename", "offset", "label"])
\* with the is_valid column added
df_sel(g, p) ==
    LET m == merge_right(p, g, {"filename", "offset", "label"},
                         FrameColumns, FrameColumns, FALSE)
    IN [i \in DOMAIN m |->
           [c \in (DOMAIN m[i]) \cup {"is_valid"} |->
               IF c = "is_valid" THEN row_is_valid(m[i]) ELSE m[i][c]]]

calculate_positives(g, p) ==
    LET Pred_Pos_per_cc ==
            groupby_count(drop_duplicates(p, {"filename", "offset"}), "offset")
        Pred_Pos == Len(drop_duplicates(p, {"filename", "offset"}))
        GS_Pos_per_cc ==
            groupby_count(drop_duplicates(g, {"filename", "offset"}), "offset")
        GS_Pos == Len(drop_duplicates(g, {"filename", "offset"}))
        valid == select_rows(df_sel(g, p), "is_valid")
        TP_per_cc == groupby_count(valid, "is_valid")
        TP == Len(valid)
        after == handle_missing_cases(TP_per_cc, Pred_Pos_per_cc, g, p)
    IN [TP_per_cc |-> after.TP_per_cc, TP |-> TP,
        Pred_Pos_per_cc |-> after.Pred_Pos_per_cc, Pred_Pos |-> Pred_Pos,
        GS_Pos_per_cc |-> GS_Pos_per_cc, GS_Pos |-> GS_Pos]

\* derive_metrics with the micro averages divided without their guards
derive_metrics_unguarded(pos) ==
    LET P_per_cc == series_div(series_float(pos.TP_per_cc),
                              series_float(pos.Pred_Pos_per_cc))
        R_per_cc == series_div(series_float(pos.TP_per_cc),
                              series_float(pos.GS_Pos_per_cc))
        F1_per_cc == series_div(
                               series_scale(2, series_mul(P_per_cc, R_per_cc)),
                               series_add(P_per_cc, R_per_cc))
        P == truediv(FromInt(pos.TP), FromInt(pos.Pred_Pos))
        R == truediv(FromInt(pos.TP), FromInt(pos.GS_Pos))
        F1 == truediv(fmul(FromInt(2), fmul(P, R)), fadd(P, R))
    IN [P_per_cc |-> P_per_cc, P |-> P, R_per_cc |-> R_per_cc, R |-> R,
        F1_per_cc |-> F1_per_cc, F1 |-> F1]

\* calculate_metrics after its call of calculate_positives returned pos
derive_metrics(pos) ==
    LET P_per_cc == series_div(series_float(pos.TP_per_cc),
                              series_float(pos.Pred_Pos_per_cc))
        R_per_cc == series_div(series_float(pos.TP_per_cc),
                              series_float(pos.GS_Pos_per_cc))
        F1_per_cc == series_div(
                               series_scale(2, series_mul(P_per_cc, R_per_cc)),
                               series_add(P_per_cc, R_per_cc))
        P == IF pos.Pred_Pos > 0
             THEN truediv(FromInt(pos.TP), FromInt(pos.Pred_Pos)) ELSE Zero
        R == IF pos.GS_Pos > 0
             THEN truediv(FromInt(pos.TP), FromInt(pos.GS_Pos)) ELSE Zero
        PR == fadd(P, R)
        F1 == IF (~IsError(PR)) /\ PR.num > 0
              THEN truediv(fmul(FromInt(2), fmul(P, R)), PR) ELSE Zero
    IN [P_per_cc |-> P_per_cc, P |-> P, R_per_cc |-> R_per_cc, R |-> R,
        F1_per_cc |-> F1_per_cc, F1 |-> F1]

calculate_metrics(g, p) == derive_metrics(calculate_positives(g, p))

(***************************************************************************)
(* src/main.py                                                             *)
(***************************************************************************)
\* str.upper() on the entity names the model passes
upper(e) == CASE e = "a" -> "A" [] e = "b" -> "B" [] OTHER -> e

\* the parameters of parse_tsv_file (src/evaluation.py:17)
parse_tsv_file_params == <<"datapath">>

\* main, given the rows of the two files and args.entities (<<>> when the
\* option is absent): what it prints and the exception it ends with
main(gold_rows, pred_rows, ents) ==
    LET entities_to_evaluate ==
            IF ents # <<>> THEN [i \in DOMAIN ents |-> upper(ents[i])] ELSE <<>>
        \* the positional arguments of the call at line 16
        call_args == <<gold_rows, entities_to_evaluate>>
    IN IF Len(call_args) > Len(parse_tsv_file_params)
       THEN [raised |-> "TypeError", stdout |-> <<>>]
       ELSE LET g == parse_tsv_file(gold_rows)
                p == parse_tsv_file(pred_rows)
                m == calculate_metrics(g, p)
            IN [raised |-> "None", stdout |-> <<m.P, m.R, m.F1>>]

(***************************************************************************)
(* The evaluation of two files: load both, then compute.                   *)
(***************************************************************************)
NoFrame == <<>>
NoResult == [none |-> TRUE]

\* two input files of at most n rows together
InitFiles(rows, n) ==
    /\ gold_file \in SeqsUpTo(rows, n)
    /\ pred_file \in SeqsUpTo(rows, n - Len(gold_file))
    /\ gs = NoFrame
    /\ pred = NoFrame
    /\ positives = NoResult
    /\ metrics = NoResult
    /\ reordered = NoResult
    /\ exit = NoResult

Init ==
    /\ InitFiles(RowsOver(Spans, Texts), MaxRows)
    /\ entities = <<>>
    /\ pc = "start"

LoadGold ==
    /\ pc = "start"
    /\ gs' = parse_tsv_file(gold_file)
    /\ pc' = "gold_loaded"
    /\ UNCHANGED <<gold_file, pred_file, entities, pred, positives, metrics, reordered, exit>>

LoadPred ==
    /\ pc = "gold_loaded"
    /\ pred' = parse_tsv_file(pred_file)
    /\ pc' = "loaded"
    /\ UNCHANGED <<gold_file, pred_file, entities, gs, positives, metrics, reordered, exit>>

CalculateMetrics ==
    /\ pc = "loaded"
    /\ positives' = calculate_positives(gs, pred)
    /\ metrics' = derive_metrics(positives')
    /\ pc' = "done"
    /\ UNCHANGED <<gold_file, pred_file, entities, gs, pred, reordered, exit>>

Next == LoadGold \/ LoadPred \/ CalculateMetrics

Spec == Init /\ [][Next]_vars

(***************************************************************************)
(* One file parsed, over rows whose start and end may hold a space.        *)
(***************************************************************************)
InitParse ==
    /\ gold_file \in SeqsUpTo(RowsOver(RawSpans, RawTexts), MaxRawRows)
    /\ pred_file = <<>>
    /\ entities = <<>>
    /\ gs = NoFrame
    /\ pred = NoFrame
    /\ positives = NoResult
    /\ metrics = NoResult
    /\ reordered = NoResult
    /\ exit = NoResult
    /\ pc = "start"

NextParse == LoadGold

SpecParse == InitParse /\ [][NextParse]_vars

(***************************************************************************)
(* The same two record sets evaluated a second time with their rows in     *)
(* another order.                                                          *)
(***************************************************************************)
Perms(n) == {f \in [1..n -> 1..n] : \A i, j \in 1..n : f[i] = f[j] => i = j}
reorder(df, f) == [i \in 1..Len(df) |-> df[f[i]]]

InitOrder ==
    /\ InitFiles(RowsOver(Spans, Texts), MaxOrderRows)
    /\ entities = <<>>
    /\ pc = "start"

Reorder ==
    /\ pc = "done"
    /\ \E f \in Perms(Len(gs)), h \in Perms(Len(pred)) :
          reordered' = [gs |-> reorder(gs, f), pred |-> reorder(pred, h),
                        metrics |-> calculate_metrics(reorder(gs, f), reorder(pred, h))]
    /\ pc' = "reordered"
    /\ UNCHANGED <<gold_file, pred_file, entities, gs, pred, positives, metrics, exit>>

NextOrder == LoadGold \/ LoadPred \/ CalculateMetrics \/ Reorder

SpecOrder == InitOrder /\ [][NextOrder]_vars

(***************************************************************************)
(* A run of the command line program.                                      *)
(***************************************************************************)
EntityArgs == {<<>>, <<"a">>, <<"A">>, <<"B">>, <<"a", "b">>}

InitMain ==
    /\ InitFiles(RowsOver(Spans, Texts), MaxMainRows)
    /\ entities \in EntityArgs
    /\ pc = "cli"

Main ==
    /\ pc = "cli"
    /\ exit' = main(gold_file, pred_file, entities)
    /\ pc' = "exited"
    /\ UNCHANGED <<gold_file, pred_file, entities, gs, pred, positives, metrics, reordered>>

NextMain == Main

SpecMain == InitMain /\ [][NextMain]_vars

(***************************************************************************)
(* Properties.                                                             *)
(***************************************************************************)
Triple(r) == <<r["filename"], r["offset"], r["label"]>>
Triples(df) == {Triple(df[i]) : i \in DOMAIN df}
DocSpan(r) == <<r["filename"], r["offset"]>>
DocsOf(df) == {df[i]["filename"] : i \in DOMAIN df}
\* the gold records of document d that predicted holds on all three keys
Matched(d) == {i \in DOMAIN gs : gs[i]["filename"] = d /\ Triple(gs[i]) \in Triples(pred)}
InUnit(x) == (~IsError(x)) /\ x.den > 0 /\ 0 <= x.num /\ x.num <= x.den

\* C1: a record set scored against itself, with GoldPositives > 0, has micro
\* Precision = micro Recall = micro F1 = 1.
C1_SelfMatchIdentity ==
    (pc = "done" /\ pred = gs /\ positives.GS_Pos > 0)
        => (metrics.P = One /\ metrics.R = One /\ metrics.F1 = One)

\* C2: TruePositives is the number of gold records whose (document_id,
\* span_key, label) triple predicted holds; a gold record matched only on
\* document and span is not counted.
C2_TruePositivesAreTripleMatches ==
    pc = "done" =>
        positives.TP = Cardinality({i \in DOMAIN gs : Triple(gs[i]) \in Triples(pred)})

\* C2 witness: one gold record is matched on all three keys and another on
\* document and span only.
C2_Witness ==
    /\ pc = "done"
    /\ \E i \in DOMAIN gs : Triple(gs[i]) \in Triples(pred)
    /\ \E i \in DOMAIN gs, j \in DOMAIN pred :
          DocSpan(gs[i]) = DocSpan(pred[j]) /\ Triple(gs[i]) \notin Triples(pred)

\* C3: every document of gold that predicted does not name has the entry 0 in
\* the returned TruePositivesPerDoc, and a document with true positives keeps
\* its count.
C3_UnpredictedDocsGetZero ==
    pc = "done" =>
        /\ \A d \in DocsOf(gs) \ DocsOf(pred) :
              d \in DOMAIN positives.TP_per_cc /\ positives.TP_per_cc[d] = 0
        /\ \A d \in DocsOf(gs) :
              Matched(d) # {} =>
                  d \in DOMAIN positives.TP_per_cc
                  /\ positives.TP_per_cc[d] = Cardinality(Matched(d))

\* C3 witness: gold names a document predicted does not, beside a document
\* with a true positive.
C3_Witness ==
    /\ pc = "done"
    /\ DocsOf(gs) \ DocsOf(pred) # {}
    /\ \E d \in DocsOf(gs) : Matched(d) # {}

\* C4: a document of predicted that gold does not name is in neither the
\* returned PredictedPositivesPerDoc nor the per-document Precision series
\* (stated for a gold set that holds a record).
C4_NonGoldDocsExcluded ==
    (pc = "done" /\ gs # <<>>) =>
        \A d \in DocsOf(pred) \ DocsOf(gs) :
            d \notin DOMAIN positives.Pred_Pos_per_cc /\ d \notin DOMAIN metrics.P_per_cc

\* C5: when predicted and gold share no triple, TruePositives = 0 and micro
\* Precision, Recall and F1 are the number 0; no division by zero is raised.
C5_NoOverlapIsZero ==
    (pc = "done" /\ Triples(gs) \cap Triples(pred) = {}) =>
        /\ positives.TP = 0
        /\ metrics.P = Zero
        /\ metrics.R = Zero
        /\ metrics.F1 = Zero

\* C5 witness: predicted is empty and gold is not.
C5_Witness == pc = "done" /\ pred = <<>> /\ gs # <<>>

\* C6: the metrics of the reordered record sets are the metrics of the
\* record sets: the three micro values and the three per-document mappings.
C6_OrderIndependence ==
    pc = "reordered" => reordered.metrics = metrics

\* C6 witness: the rows of both inputs moved, with a true positive among them.
C6_Witness ==
    /\ pc = "reordered"
    /\ reordered.gs # gs
    /\ positives.TP > 0
    /\ Len(pred) > 0

\* C7: the parsed frame holds each (document_id, label, span_key) triple of
\* the file exactly once, with span_key = span_start + " " + span_end.
C7_OneRecordPerTriple ==
    pc = "gold_loaded" =>
        /\ \A i \in DOMAIN gs :
              gs[i]["offset"] = gs[i][START_SPAN_TAG] \o " " \o gs[i][END_SPAN_TAG]
        /\ \A i, j \in DOMAIN gs : Triple(gs[i]) = Triple(gs[j]) => i = j
        /\ Triples(gs) =
              {<<gold_file[k]["filename"],
                 gold_file[k][START_SPAN_TAG] \o " " \o gold_file[k][END_SPAN_TAG],
                 gold_file[k]["label"]>> : k \in DOMAIN gold_file}

\* C7 witness: a file of which a duplicate row was removed and two rows kept.
C7_Witness ==
    /\ pc = "gold_loaded"
    /\ Len(gs) < Len(gold_file)
    /\ Len(gs) >= 2

\* the rows of a file whose label is in the upper-cased entity set
Restricted(rows, ents) ==
    SelectSeq(rows, LAMBDA r : r["label"] \in {upper(ents[i]) : i \in DOMAIN ents})

\* C8: a run with --entities ends normally, having printed the three micro
\* averages of the two record sets restricted to the given labels.
C8_EntityFilterRunCompletes ==
    (pc = "exited" /\ entities # <<>>) =>
        /\ exit.raised = "None"
        /\ LET m == calculate_metrics(parse_tsv_file(Restricted(gold_file, entities)),
                                      parse_tsv_file(Restricted(pred_file, entities)))
           IN exit.stdout = <<m.P, m.R, m.F1>>

\* C9: a document with a gold record and a predicted record has per-document
\* Recall (its true positives) / (its GoldPositivesPerDoc), 0 when it has no
\* true positive.
C9_PerDocRecallDefined ==
    pc = "done" =>
        \A d \in DocsOf(gs) \cap DocsOf(pred) :
            /\ d \in DOMAIN metrics.R_per_cc
            /\ metrics.R_per_cc[d] =
                   Rat(Cardinality(Matched(d)), positives.GS_Pos_per_cc[d])

\* C10: TruePositives <= PredictedPositives, TruePositives <= GoldPositives,
\* and micro Precision, Recall and F1 lie in [0, 1].
C10_CountsAndMicroInUnitRange ==
    pc = "done" =>
        /\ positives.TP <= positives.Pred_Pos
        /\ positives.TP <= positives.GS_Pos
        /\ InUnit(metrics.P)
        /\ InUnit(metrics.R)
        /\ InUnit(metrics.F1)

====
